---- MODULE Spec2Model ----
(***************************************************************************)
(* graphene_sqlalchemy/types.py as a state machine.                        *)
(*                                                                         *)
(* State: the type classes defined so far with their options records       *)
(* (cls._meta), the registries, and the position of the class definition   *)
(* in progress (SQLAlchemyObjectTypeMeta.__new__ and the construct_fields  *)
(* call it makes).  Python runs a class definition to completion, so while *)
(* one is in progress (pc # "idle") no other operation is enabled.         *)
(***************************************************************************)
EXTENDS Naturals, Sequences, FiniteSets, TLC

\* ------------------------------------------------------------------ bounds

\* Longest inspected_model.all_orm_descriptors considered.
MaxDescriptors == 1
\* Number of class statements (successful or failing) in one run of Spec.
MaxClasses == 2

\* The attribute and field names in play.  Every test construct_fields makes
\* is on one name at a time.
Names == {"id", "name"}

ClassIds == 1..MaxClasses

\* ------------------------------------------------- OrderedDict, as in Python

\* An OrderedDict is a sequence of [key, value] records with distinct keys.
EmptyDict == << >>

Keys(od) == {od[i].key : i \in 1..Len(od)}

Get(od, k) == (CHOOSE i \in 1..Len(od) : od[i].key = k)

Value(od, k) == od[Get(od, k)].value

\* od[k] = v : replaces the value in place when k is present, appends otherwise.
Put(od, k, v) ==
    IF k \in Keys(od)
    THEN [od EXCEPT ![Get(od, k)] = [key |-> k, value |-> v]]
    ELSE Append(od, [key |-> k, value |-> v])

\* od.update(other)
RECURSIVE Update(_, _)
Update(od, other) ==
    IF other = << >> THEN od
    ELSE Update(Put(od, Head(other).key, Head(other).value), Tail(other))

\* --------------------------------------------------------- the ORM's models

\* What sqlalchemyinspect(model) exposes of a mapped model.  columns,
\* composites and relationships are mapper properties, keyed by attribute
\* name, so the three are disjoint; a hybrid property is named by the
\* __name__ of its function, which may be any name (also one of a column, or
\* that of another hybrid property).
\* Of an item of all_orm_descriptors that is no hybrid_property the loop reads
\* the type alone: one hybrid_method stands for all such items.
Descriptors ==
    [type : {"hybrid_property"}, name : Names]
        \cup {[type |-> "hybrid_method", name |-> "name"]}

DescriptorSeqs == UNION {[1..n -> Descriptors] : n \in 0..MaxDescriptors}

PropertyKinds == {"none", "column", "composite", "relationship"}

MappedModel(nm, kindOf, descs) ==
    [name |-> nm, mapped |-> TRUE,
     columns |-> {n \in Names : kindOf[n] = "column"},
     composites |-> {n \in Names : kindOf[n] = "composite"},
     relationships |-> {n \in Names : kindOf[n] = "relationship"},
     all_orm_descriptors |-> descs]

\* Every mapped model over Names, called nm.
MappedModels(nm) ==
    {MappedModel(nm, k, d) : k \in [Names -> PropertyKinds], d \in DescriptorSeqs}

\* A value that is no mapped model: None (Meta gives no model) or any other object.
Unmapped(nm) ==
    [name |-> nm, mapped |-> FALSE, columns |-> {}, composites |-> {},
     relationships |-> {}, all_orm_descriptors |-> << >>]

\* utils.is_mapped
is_mapped(obj) == obj.mapped

\* ------------------------------------------------------------- registries

\* Meta.registry: absent (None), a falsy object that is no Registry (0, "",
\* an empty list), a truthy object that is no Registry, or a Registry: the
\* global one or one the user made.
RegistryIds == {"global", "custom"}

MetaRegistries == {"None", "falsy", "object"} \cup RegistryIds

\* bool(registry): a Registry defines neither __bool__ nor __len__.
Truthy(r) == r \notin {"None", "falsy"}

\* isinstance(r, Registry)
IsRegistry(r) == r \in RegistryIds

\* registry.get_global_registry
get_global_registry == "global"

\* Registry.register(cls): the registry maps the class's model to the class.
Registered(reg, model, c) ==
    {e \in reg : e.model # model} \cup {[model |-> model, cls |-> c]}

\* --------------------------------------------------------- field descriptors

\* A field descriptor: what made it, for which name, and graphene's creation
\* counter (every descriptor made gets the next one).  A converter returns an
\* unmounted type or, for a relationship, a Dynamic; fields declared by the
\* user, inherited or taken from interfaces are Fields.
Descriptor(kind, name, counter, type) ==
    [kind |-> kind, name |-> name, creation_counter |-> counter, type |-> type]

ConvertedType(kind) == IF kind = "relationship" THEN "Dynamic" ELSE "UnmountedType"

\* A converter either returns a descriptor or raises.
ConverterOutcomes == {"returns", "raises"}

\* The dict of declared Fields with the names in `names`.
RECURSIVE Declared(_, _)
Declared(kind, names) ==
    IF names = {} THEN EmptyDict
    ELSE LET n == CHOOSE x \in names : TRUE
         IN << [key |-> n, value |-> Descriptor(kind, n, 0, "Field")] >>
            \o Declared(kind, names \ {n})

\* graphene.types.utils.merge(*dicts): later dicts win.
RECURSIVE merge(_)
merge(dicts) ==
    IF dicts = << >> THEN EmptyDict
    ELSE Update(merge(SubSeq(dicts, 1, Len(dicts) - 1)), dicts[Len(dicts)])

\* graphene's get_field_as(value, _as=Field): mounts an unmounted type.
get_field_as(value) ==
    IF value.type = "UnmountedType" THEN [value EXCEPT !.type = "Field"] ELSE value

\* graphene's yank_fields_from_attrs(attrs, _as=Field): every value mounted,
\* sorted by creation counter.
RECURSIVE yank_fields_from_attrs(_)
yank_fields_from_attrs(attrs) ==
    IF attrs = << >> THEN EmptyDict
    ELSE LET i == CHOOSE j \in 1..Len(attrs) :
                      \A k \in 1..Len(attrs) :
                          attrs[j].value.creation_counter <= attrs[k].value.creation_counter
             rest == [k \in 1..(Len(attrs) - 1) |-> IF k < i THEN attrs[k] ELSE attrs[k + 1]]
         IN << [key |-> attrs[i].key, value |-> get_field_as(attrs[i].value)] >>
            \o yank_fields_from_attrs(rest)

\* ------------------------------------------------------------------ state

VARIABLES
    classes,          \* per class statement: how far it got, and cls._meta
    registries,       \* per Registry: its entries, model -> class
    registerCalls,    \* per class: the number of register(cls) calls made
    pc,               \* the position of the class statement in progress
    cur,              \* the class statements begun so far; the last is in progress
    args,             \* __new__'s attrs and bases: Meta and the fields they declare
    todo,             \* construct_fields: the items the current loop has left
    idx,              \* construct_fields: the place in all_orm_descriptors
    fields,           \* construct_fields: its local OrderedDict
    calls,            \* construct_fields: the converter calls made, in order
    creation_counter, \* graphene's counter of descriptors made
    result            \* what the last operation returned or raised

vars == << classes, registries, registerCalls, pc, cur, args, todo, idx, fields,
           calls, creation_counter, result >>

\* Options(Meta, model=None, only_fields=(), exclude_fields=(), registry=None, ...)
Options(meta) ==
    [model |-> meta.model, only_fields |-> meta.only_fields,
     exclude_fields |-> meta.exclude_fields, registry |-> meta.registry,
     interface_fields |-> EmptyDict, base_fields |-> EmptyDict,
     local_fields |-> EmptyDict, fields |-> EmptyDict,
     sqlalchemy_fields |-> EmptyDict, assigned |-> {}]

NoMeta ==
    [model |-> Unmapped("None"), only_fields |-> {}, exclude_fields |-> {},
     registry |-> "None"]

NoOptions == Options(NoMeta)

NoArgs == [meta |-> NoMeta, interfaces |-> {}, bases |-> {}, attrs |-> {}]

\* Python values an operation returns
None == [type |-> "NoneType"]

Bool(b) == [type |-> "bool", bool |-> b]

Class(c) == [type |-> "class", cls |-> c]

\* An operation's outcome: what it was called with, and what it returned or
\* the exception it raised.
NoInput == [none |-> TRUE]

NoResult == [op |-> "none", cls |-> 0, input |-> NoInput, raised |-> "", value |-> None]

Returned(op, c, in, v) == [op |-> op, cls |-> c, input |-> in, raised |-> "", value |-> v]

Raised(op, c, in, e) == [op |-> op, cls |-> c, input |-> in, raised |-> e, value |-> None]

options == classes[cur].meta

Init ==
    /\ classes = [c \in ClassIds |-> [status |-> "undefined", created |-> FALSE,
                                      meta |-> NoOptions]]
    /\ registries = [r \in RegistryIds |-> {}]
    /\ registerCalls = [c \in ClassIds |-> 0]
    /\ pc = "idle"
    /\ cur = 0
    /\ args = NoArgs
    /\ todo = {}
    /\ idx = 0
    /\ fields = EmptyDict
    /\ calls = << >>
    /\ creation_counter = 0
    /\ result = NoResult

\* construct_fields' locals, gone when it returns or raises
LocalsDropped ==
    /\ todo' = {}
    /\ idx' = 0
    /\ fields' = EmptyDict
    /\ calls' = << >>
    /\ args' = NoArgs

\* An exception leaves __new__: the class statement fails.  Options built for
\* a class that was never created are dropped with __new__'s other locals;
\* a class that was created keeps its _meta.
Fails(e) ==
    /\ classes' = [classes EXCEPT
                       ![cur].status = "failed",
                       ![cur].meta = IF classes[cur].created THEN @ ELSE NoOptions]
    /\ pc' = "idle"
    /\ result' = Raised("define", cur, args.meta, e)
    /\ LocalsDropped

\* ------------------------------------------- SQLAlchemyObjectTypeMeta.__new__

\* A class statement whose bases hold no SQLAlchemyObjectTypeMeta class (that
\* of SQLAlchemyObjectType itself): a plain type, without options.
DefineBaseType ==
    /\ pc = "idle"
    /\ cur < MaxClasses
    /\ cur' = cur + 1
    /\ classes' = [classes EXCEPT ![cur + 1].status = "base", ![cur + 1].created = TRUE]
    /\ result' = Returned("define_base", cur + 1, NoInput, Class(cur + 1))
    /\ UNCHANGED << registries, registerCalls, pc, args, todo, idx, fields, calls,
                    creation_counter >>

\* A class statement of a subclass of SQLAlchemyObjectType: the options are
\* built from its Meta.
Define(statements, limit) ==
    /\ pc = "idle"
    /\ cur < limit
    /\ \E st \in statements :
        /\ classes' = [classes EXCEPT ![cur + 1].status = "defining",
                                      ![cur + 1].meta = Options(st.meta)]
        /\ args' = [meta |-> st.meta, interfaces |-> st.interfaces, bases |-> st.bases,
                    attrs |-> st.attrs]
    /\ cur' = cur + 1
    /\ pc' = "registry"
    /\ result' = NoResult
    /\ UNCHANGED << registries, registerCalls, todo, idx, fields, calls, creation_counter >>

\* DefaultedRegistry without the default
DefaultedRegistryAsGiven(r) == r

\* if not options.registry: options.registry = get_global_registry()
DefaultedRegistry(r) == IF ~Truthy(r) THEN get_global_registry ELSE r

\* assert isinstance(options.registry, Registry)
RegistryAsserted(r) == IsRegistry(r)

CheckRegistry ==
    /\ pc = "registry"
    /\ LET r == DefaultedRegistry(options.registry)
       IN IF RegistryAsserted(r)
          THEN /\ classes' = [classes EXCEPT ![cur].meta.registry = r]
               /\ pc' = "model"
               /\ UNCHANGED << args, todo, idx, fields, calls, result >>
          ELSE Fails("AssertionError")
    /\ UNCHANGED << registries, registerCalls, cur, creation_counter >>

\* assert is_mapped(options.model)
CheckModel ==
    /\ pc = "model"
    /\ IF is_mapped(options.model)
       THEN /\ pc' = "create"
            /\ UNCHANGED << classes, args, todo, idx, fields, calls, result >>
       ELSE Fails("AssertionError")
    /\ UNCHANGED << registries, registerCalls, cur, creation_counter >>

\* cls = ObjectTypeMeta.__new__(cls, name, bases, dict(attrs, _meta=options)):
\* graphene fills in the interface, base and local fields and merges them
\* into options.fields, then creates the class.
ObjectTypeMeta_new(o, a) ==
    LET i == Declared("interface", a.interfaces)
        b == Declared("base", a.bases)
        l == Declared("local", a.attrs)
    IN [o EXCEPT !.interface_fields = i, !.base_fields = b, !.local_fields = l,
                 !.fields = merge(<< i, b, l >>),
                 !.assigned = @ \cup {"interface_fields", "base_fields",
                                      "local_fields", "fields"}]

CreateClass ==
    /\ pc = "create"
    /\ classes' = [classes EXCEPT ![cur].meta = ObjectTypeMeta_new(options, args),
                                  ![cur].created = TRUE]
    /\ pc' = "register"
    /\ UNCHANGED << registries, registerCalls, cur, args, todo, idx, fields, calls,
                    creation_counter, result >>

\* RegisterClass, the class registered twice
RegisterClassTwice ==
    /\ pc = "register"
    /\ registries' = [registries EXCEPT ![options.registry] =
                          Registered(@, options.model, cur)]
    /\ registerCalls' = [registerCalls EXCEPT ![cur] = @ + 2]
    /\ pc' = "construct"
    /\ UNCHANGED << classes, cur, args, todo, idx, fields, calls, creation_counter,
                    result >>

\* RegisterClass, the registration left for after the derivation
RegisterClassDeferred ==
    /\ pc = "register"
    /\ pc' = "construct"
    /\ UNCHANGED << classes, registries, registerCalls, cur, args, todo, idx, fields,
                    calls, creation_counter, result >>

\* options.registry.register(cls)
RegisterClass ==
    /\ pc = "register"
    /\ registries' = [registries EXCEPT ![options.registry] =
                          Registered(@, options.model, cur)]
    /\ registerCalls' = [registerCalls EXCEPT ![cur] = @ + 1]
    /\ pc' = "construct"
    /\ UNCHANGED << classes, cur, args, todo, idx, fields, calls, creation_counter,
                    result >>

\* ----------------------------------------------------------- construct_fields

\* The skip test, written out once per loop in the source.
\* (`only_fields and name not in only_fields`: an empty only_fields is falsy.)
\* ColumnSkipped without the test against options.fields
ColumnSkippedUnlessPresent(o, name) ==
    LET is_not_in_only == o.only_fields # {} /\ name \notin o.only_fields
        is_excluded == name \in o.exclude_fields
    IN is_not_in_only \/ is_excluded

ColumnSkipped(o, name) ==
    LET is_not_in_only == o.only_fields # {} /\ name \notin o.only_fields
        is_already_created == name \in Keys(o.fields)
        is_excluded == name \in o.exclude_fields \/ is_already_created
    IN is_not_in_only \/ is_excluded

CompositeSkipped(o, name) ==
    LET is_not_in_only == o.only_fields # {} /\ name \notin o.only_fields
        is_already_created == name \in Keys(o.fields)
        is_excluded == name \in o.exclude_fields \/ is_already_created
    IN is_not_in_only \/ is_excluded

HybridSkipped(o, name) ==
    LET is_not_in_only == o.only_fields # {} /\ name \notin o.only_fields
        is_already_created == name \in Keys(o.fields)
        is_excluded == name \in o.exclude_fields \/ is_already_created
    IN is_not_in_only \/ is_excluded

\* RelationshipSkipped without the test against exclude_fields
RelationshipSkippedUnlessExcluded(o, name) ==
    LET is_not_in_only == o.only_fields # {} /\ name \notin o.only_fields
        is_already_created == name \in Keys(o.fields)
    IN is_not_in_only \/ is_already_created

RelationshipSkipped(o, name) ==
    LET is_not_in_only == o.only_fields # {} /\ name \notin o.only_fields
        is_already_created == name \in Keys(o.fields)
        is_excluded == name \in o.exclude_fields \/ is_already_created
    IN is_not_in_only \/ is_excluded

\* fields[name] = convert_sqlalchemy_<kind>(...): the converter is called and
\* either raises, which ends the class statement, or returns the descriptor
\* stored under name; the loop then goes on with todoNext / idxNext.
Convert(kind, name, todoNext, idxNext) ==
    \E outcome \in ConverterOutcomes :
        IF outcome = "returns"
        THEN /\ fields' = Put(fields, name,
                              Descriptor(kind, name, creation_counter + 1,
                                         ConvertedType(kind)))
             /\ calls' = Append(calls, [converter |-> kind, name |-> name])
             /\ creation_counter' = creation_counter + 1
             /\ todo' = todoNext
             /\ idx' = idxNext
             /\ UNCHANGED << classes, pc, args, result >>
        ELSE /\ Fails("Exception")
             /\ UNCHANGED creation_counter

\* continue
Skip(todoNext, idxNext) ==
    /\ todo' = todoNext
    /\ idx' = idxNext
    /\ UNCHANGED << classes, pc, args, fields, calls, creation_counter, result >>

\* fields = OrderedDict(), and the first loop begins
construct_fields ==
    /\ pc = "construct"
    /\ fields' = EmptyDict
    /\ calls' = << >>
    /\ todo' = options.model.columns
    /\ pc' = "columns"
    /\ UNCHANGED << classes, registries, registerCalls, cur, args, idx,
                    creation_counter, result >>

\* for name, column in inspected_model.columns.items()
ColumnStep ==
    /\ pc = "columns"
    /\ \E name \in todo :
        IF ColumnSkipped(options, name)
        THEN Skip(todo \ {name}, idx)
        ELSE Convert("column", name, todo \ {name}, idx)
    /\ UNCHANGED << registries, registerCalls, cur >>

ColumnsDone ==
    /\ pc = "columns"
    /\ todo = {}
    /\ todo' = options.model.composites
    /\ pc' = "composites"
    /\ UNCHANGED << classes, registries, registerCalls, cur, args, idx, fields, calls,
                    creation_counter, result >>

\* for name, composite in inspected_model.composites.items()
CompositeStep ==
    /\ pc = "composites"
    /\ \E name \in todo :
        IF CompositeSkipped(options, name)
        THEN Skip(todo \ {name}, idx)
        ELSE Convert("composite", name, todo \ {name}, idx)
    /\ UNCHANGED << registries, registerCalls, cur >>

CompositesDone ==
    /\ pc = "composites"
    /\ todo = {}
    /\ idx' = 1
    /\ pc' = "hybrids"
    /\ UNCHANGED << classes, registries, registerCalls, cur, args, todo, fields, calls,
                    creation_counter, result >>

\* for hybrid_item in inspected_model.all_orm_descriptors:
\*     if type(hybrid_item) == hybrid_property: name = hybrid_item.__name__ ...
HybridStep ==
    /\ pc = "hybrids"
    /\ idx <= Len(options.model.all_orm_descriptors)
    /\ LET hybrid_item == options.model.all_orm_descriptors[idx]
       IN IF hybrid_item.type = "hybrid_property"
          THEN IF HybridSkipped(options, hybrid_item.name)
               THEN Skip(todo, idx + 1)
               ELSE Convert("hybrid", hybrid_item.name, todo, idx + 1)
          ELSE Skip(todo, idx + 1)
    /\ UNCHANGED << registries, registerCalls, cur >>

HybridsDone ==
    /\ pc = "hybrids"
    /\ idx > Len(options.model.all_orm_descriptors)
    /\ idx' = 0
    /\ todo' = options.model.relationships
    /\ pc' = "relationships"
    /\ UNCHANGED << classes, registries, registerCalls, cur, args, fields, calls,
                    creation_counter, result >>

\* for relationship in inspected_model.relationships
RelationshipStep ==
    /\ pc = "relationships"
    /\ \E name \in todo :
        IF RelationshipSkipped(options, name)
        THEN Skip(todo \ {name}, idx)
        ELSE Convert("relationship", name, todo \ {name}, idx)
    /\ UNCHANGED << registries, registerCalls, cur >>

\* return fields
RelationshipsDone ==
    /\ pc = "relationships"
    /\ todo = {}
    /\ pc' = "assign"
    /\ UNCHANGED << classes, registries, registerCalls, cur, args, todo, idx, fields,
                    calls, creation_counter, result >>

\* options.sqlalchemy_fields = yank_fields_from_attrs(construct_fields(options), _as=Field)
\* options.fields = merge(interface_fields, sqlalchemy_fields, base_fields, local_fields)
\* return cls
Assigned(o, constructed) ==
    LET sa == yank_fields_from_attrs(constructed)
    IN [o EXCEPT !.sqlalchemy_fields = sa,
                 !.fields = merge(<< o.interface_fields, sa, o.base_fields,
                                     o.local_fields >>),
                 !.assigned = @ \cup {"sqlalchemy_fields"}]

\* AssignFields, the fields assigned to every class of the same model
AssignFieldsPerModel ==
    /\ pc = "assign"
    /\ classes' = [c \in ClassIds |->
                      IF c = cur
                      THEN [classes[c] EXCEPT !.meta = Assigned(options, fields),
                                              !.status = "defined"]
                      ELSE IF classes[c].created /\ classes[c].meta.model = options.model
                           THEN [classes[c] EXCEPT !.meta = Assigned(@, fields)]
                           ELSE classes[c]]
    /\ pc' = "idle"
    /\ result' = Returned("define", cur, args.meta, Class(cur))
    /\ LocalsDropped
    /\ UNCHANGED << registries, registerCalls, cur, creation_counter >>

AssignFields ==
    /\ pc = "assign"
    /\ classes' = [classes EXCEPT ![cur].meta = Assigned(options, fields),
                                  ![cur].status = "defined"]
    /\ pc' = "idle"
    /\ result' = Returned("define", cur, args.meta, Class(cur))
    /\ LocalsDropped
    /\ UNCHANGED << registries, registerCalls, cur, creation_counter >>

\* The statements of construct_fields and of __new__ around it
DefinitionStep ==
    \/ CheckRegistry
    \/ CheckModel
    \/ CreateClass
    \/ RegisterClass
    \/ construct_fields
    \/ ColumnStep
    \/ ColumnsDone
    \/ CompositeStep
    \/ CompositesDone
    \/ HybridStep
    \/ HybridsDone
    \/ RelationshipStep
    \/ RelationshipsDone
    \/ AssignFields

\* ----------------------------------------- one class statement, any model

\* Every class statement over Names: any mapped model, any filters, any
\* declared, inherited and interface fields.
FieldStatements ==
    [meta : [model : MappedModels("M"), only_fields : SUBSET Names,
             exclude_fields : SUBSET Names, registry : {"None"}],
     interfaces : SUBSET Names, bases : SUBSET Names, attrs : SUBSET Names]

NextFields == Define(FieldStatements, 1) \/ DefinitionStep

SpecFields == Init /\ [][NextFields]_vars

\* ------------------------------------------------------ SQLAlchemyObjectType

Defined == {c \in ClassIds : classes[c].status = "defined"}

\* The objects is_type_of is asked about: an instance of a type class that
\* was created (cls = that class), or, with cls = 0, an instance of the Python
\* class `class`, a mapped model or not.
InstanceOfType(c) == [cls |-> c, class |-> Unmapped("object")]

InstanceOf(class) == [cls |-> 0, class |-> class]

\* is_mapped(type(root)): a graphene type class is no mapped model.
TypeIsMapped(root) == root.cls = 0 /\ is_mapped(root.class)

\* isinstance(root, model)
IsInstanceOfModel(root, model) == root.cls = 0 /\ root.class = model

\* is_type_of_result, an unmapped root answered instead of refused
is_type_of_result_lenient(c, root) ==
    IF root.cls = c
    THEN Returned("is_type_of", c, root, Bool(TRUE))
    ELSE Returned("is_type_of", c, root,
                  Bool(IsInstanceOfModel(root, classes[c].meta.model)))

is_type_of_result(c, root) ==
    IF root.cls = c
    THEN Returned("is_type_of", c, root, Bool(TRUE))
    ELSE IF ~TypeIsMapped(root)
         THEN Raised("is_type_of", c, root, "Exception")
         ELSE Returned("is_type_of", c, root,
                       Bool(IsInstanceOfModel(root, classes[c].meta.model)))

\* utils.get_query(model, context): the query over the model
get_query_result(c) ==
    Returned("get_query", c, NoInput,
             [type |-> "Query", model |-> classes[c].meta.model.name])

\* cls.get_query(context).get(id) finds the entity, returns None, raises
\* NoResultFound or fails with another exception.
Lookups == {"found", "None", "NoResultFound", "OperationalError"}

EntityIds == {1}

Entity(model, id) == [type |-> "entity", model |-> model.name, id |-> id]

\* get_node_result without the except clause
get_node_result_uncaught(c, id, lookup) ==
    LET in == [id |-> id, lookup |-> lookup]
    IN CASE lookup = "found" ->
                Returned("get_node", c, in, Entity(classes[c].meta.model, id))
         [] lookup = "None" -> Returned("get_node", c, in, None)
         [] OTHER -> Raised("get_node", c, in, lookup)

get_node_result(c, id, lookup) ==
    LET in == [id |-> id, lookup |-> lookup]
    IN CASE lookup = "found" ->
                Returned("get_node", c, in, Entity(classes[c].meta.model, id))
         [] lookup = "None" -> Returned("get_node", c, in, None)
         [] lookup = "NoResultFound" -> Returned("get_node", c, in, None)
         [] OTHER -> Raised("get_node", c, in, lookup)

\* resolve_id(self, args, context, info): the primary key when the parent
\* type is a node, else the attribute the parent type names as its id, None
\* when self has none.
resolve_id_result(self, is_node) ==
    LET in == [self |-> self, is_node |-> is_node]
    IN IF is_node
       THEN Returned("resolve_id", 0, in, [type |-> "id", id |-> self.primary_key])
       ELSE IF self.has_id
            THEN Returned("resolve_id", 0, in, [type |-> "id", id |-> self.id])
            ELSE Returned("resolve_id", 0, in, None)

Instances == [primary_key : {1}, has_id : BOOLEAN, id : {2}]

Unchanged == UNCHANGED << classes, registries, registerCalls, pc, cur, args, todo, idx,
                          fields, calls, creation_counter >>

\* ---------------------------------------------------- the life of a process

Author ==
    MappedModel("Author", [n \in Names |-> IF n = "id" THEN "column" ELSE "relationship"],
                << >>)

Point ==
    MappedModel("Point", [n \in Names |-> IF n = "id" THEN "composite" ELSE "none"],
                << [type |-> "hybrid_property", name |-> "name"] >>)

Models == {Author, Point, Unmapped("None"), Unmapped("object")}

\* The class statements of a run: any model of Models and any Meta.registry,
\* with or without a declared field id.
Statements ==
    [meta : [model : Models, only_fields : {{}}, exclude_fields : {{}},
             registry : MetaRegistries],
     interfaces : {{}}, bases : {{}}, attrs : {{}, {"id"}}]

Roots ==
    {InstanceOfType(c) : c \in {d \in ClassIds : classes[d].created}}
        \cup {InstanceOf(m) : m \in Models}

is_type_of ==
    /\ pc = "idle"
    /\ \E c \in Defined, root \in Roots : result' = is_type_of_result(c, root)
    /\ Unchanged

get_query ==
    /\ pc = "idle"
    /\ \E c \in Defined : result' = get_query_result(c)
    /\ Unchanged

get_node ==
    /\ pc = "idle"
    /\ \E c \in Defined, id \in EntityIds, lookup \in Lookups :
        result' = get_node_result(c, id, lookup)
    /\ Unchanged

resolve_id ==
    /\ pc = "idle"
    /\ \E self \in Instances, is_node \in BOOLEAN :
        result' = resolve_id_result(self, is_node)
    /\ Unchanged

Next ==
    \/ DefineBaseType
    \/ Define(Statements, MaxClasses)
    \/ DefinitionStep
    \/ is_type_of
    \/ get_query
    \/ get_node
    \/ resolve_id

Spec == Init /\ [][Next]_vars

\* ------------------------------------------------------------------ claims

\* The names a model gives to construct_fields: its columns, composites and
\* relationships, and its hybrid properties.
HybridNames(model) ==
    {model.all_orm_descriptors[i].name :
        i \in {j \in 1..Len(model.all_orm_descriptors) :
                  model.all_orm_descriptors[j].type = "hybrid_property"}}

AttributeNames(model) ==
    model.columns \cup model.composites \cup model.relationships \cup HybridNames(model)

\* construct_fields is running, or has just returned to __new__
Constructing == pc \in {"columns", "composites", "hybrids", "relationships", "assign"}

\* The filter of the specification: an inclusion list that is empty or holds
\* the name, no exclusion, and no field of that name there already.
PassesFilters(only_fields, exclude_fields, present, n) ==
    /\ only_fields = {} \/ n \in only_fields
    /\ n \notin exclude_fields
    /\ n \notin present

\* C1: within one construct_fields call no name is converted when it is
\* already in options.fields, and no name is converted twice: the descriptor
\* stored under a name by an earlier step is not made again or replaced.
C1_NeverDerivedAgain ==
    Constructing =>
        \A i \in 1..Len(calls) :
            /\ calls[i].name \notin Keys(options.fields)
            /\ \A j \in 1..(i - 1) : calls[j].name # calls[i].name

PreExisting(o) == merge(<< o.interface_fields, o.base_fields, o.local_fields >>)

\* C8: for a defined class, the derived names are disjoint from the
\* interface, base and local names; every such pre-existing name keeps its
\* pre-existing descriptor in the final options.fields; and every name of
\* the model that passes the filters is in options.fields with the
\* descriptor derived for it.
C8_PreExistingFieldsWin ==
    \A c \in ClassIds :
        classes[c].status = "defined" =>
            LET o == classes[c].meta
                pre == PreExisting(o)
            IN /\ Keys(o.sqlalchemy_fields) \cap Keys(pre) = {}
               /\ \A n \in Keys(pre) :
                      /\ n \in Keys(o.fields)
                      /\ Value(o.fields, n) = Value(pre, n)
               /\ \A n \in AttributeNames(o.model) :
                      PassesFilters(o.only_fields, o.exclude_fields, Keys(pre), n)
                          => /\ n \in Keys(o.sqlalchemy_fields)
                             /\ n \in Keys(o.fields)
                             /\ Value(o.fields, n) = Value(o.sqlalchemy_fields, n)
                             /\ Value(o.fields, n).kind
                                    \in {"column", "composite", "hybrid", "relationship"}

\* C8's case: a defined class whose model has a name that an interface also
\* declares, beside a name that was derived.
C8_Witness ==
    \E c \in ClassIds :
        /\ classes[c].status = "defined"
        /\ AttributeNames(classes[c].meta.model)
               \cap Keys(classes[c].meta.interface_fields) # {}
        /\ classes[c].meta.sqlalchemy_fields # EmptyDict

\* A Meta the two assertions are there to reject: a model that is not mapped,
\* or a registry that is given and is no Registry.
Misconfigured(meta) ==
    \/ ~is_mapped(meta.model)
    \/ meta.registry # "None" /\ ~IsRegistry(meta.registry)

\* Class c is in no registry and register was never called with it.
Unregistered(c) ==
    /\ registerCalls[c] = 0
    /\ \A r \in RegistryIds : \A e \in registries[r] : e.cls # c

\* C3: a class statement whose model is not mapped or whose Meta.registry is
\* given and is no Registry ends in an AssertionError, the class neither
\* created nor registered and nothing assigned.
C3_AnyNonRegistryRaises ==
    (result.op = "define" /\ Misconfigured(result.input))
        => /\ result.raised = "AssertionError"
           /\ ~classes[result.cls].created
           /\ Unregistered(result.cls)
           /\ classes[result.cls].meta.assigned = {}

\* C4 as claimed: a class statement whose Meta gives no registry ends in an
\* AssertionError, the class neither created nor registered.
C4_NoRegistryRaises ==
    (result.op = "define" /\ result.input.registry = "None")
        => /\ result.raised = "AssertionError"
           /\ ~classes[result.cls].created
           /\ Unregistered(result.cls)

\* C4, amended: a class statement whose Meta gives no registry uses the
\* global registry: past the registry assertion options.registry is the
\* global registry, an AssertionError is raised only when the model is not
\* mapped, and when __new__ returns the class is registered there.
C4_NoRegistryMeansGlobal ==
    /\ (pc \notin {"idle", "registry"} /\ args.meta.registry = "None")
           => options.registry = get_global_registry
    /\ (result.op = "define" /\ result.input.registry = "None")
           => /\ result.raised = "AssertionError" => ~is_mapped(result.input.model)
              /\ result.raised = ""
                     => /\ classes[result.cls].status = "defined"
                        /\ classes[result.cls].meta.registry = get_global_registry
                        /\ [model |-> result.input.model, cls |-> result.cls]
                               \in registries[get_global_registry]

\* C4's case: a class statement without a registry has returned its class.
C4_Witness ==
    /\ result.op = "define"
    /\ result.input.registry = "None"
    /\ result.raised = ""
    /\ classes[result.cls].status = "defined"

\* C5: get_node returns None when the lookup finds nothing, whether get(id)
\* returns None or NoResultFound is raised; NoResultFound never leaves
\* get_node; and when the entity is found get_node returns it.
C5_LookupMissIsNone ==
    result.op = "get_node" =>
        /\ result.raised # "NoResultFound"
        /\ result.input.lookup \in {"None", "NoResultFound"}
               => result.raised = "" /\ result.value = None
        /\ result.input.lookup = "found"
               => /\ result.raised = ""
                  /\ result.value = Entity(classes[result.cls].meta.model, result.input.id)

\* C5's case: the lookup raised NoResultFound and get_node returned None.
C5_Witness ==
    /\ result.op = "get_node"
    /\ result.input.lookup = "NoResultFound"
    /\ result.raised = ""
    /\ result.value = None

\* The models a registry has a class for
RegisteredModels(reg) == {e.model : e \in reg}

C7_OptionsImmutable ==
    /\ [](\A c \in ClassIds :
              classes[c].status = "defined"
                  => classes[c].meta.assigned
                         = {"interface_fields", "base_fields", "local_fields", "fields",
                            "sqlalchemy_fields"})
    /\ [][\A c \in ClassIds :
              classes[c].status = "defined" => classes'[c] = classes[c]]_vars

\* C7's case: after a first class was defined, a second class statement for
\* the same model has returned, and an operation has run since.
C7_Witness ==
    /\ classes[1].status = "defined"
    /\ classes[2].status = "defined"
    /\ classes[1].meta.model = classes[2].meta.model
    /\ result.op = "is_type_of"

\* C9: a class exists only after both assertions passed, register is called
\* only with a class that exists, construct_fields runs only with the class
\* registered (so it is in the registry while its relationships are
\* converted) and before sqlalchemy_fields and the final fields are
\* assigned, which happens only as __new__ returns; and when a converter
\* raises, the class stays registered with neither of the two assigned.
C9_StepsInOrder ==
    /\ \A c \in ClassIds :
           /\ (classes[c].created /\ classes[c].status # "base")
                  => /\ IsRegistry(classes[c].meta.registry)
                     /\ is_mapped(classes[c].meta.model)
           /\ registerCalls[c] > 0 => classes[c].created
           /\ "sqlalchemy_fields" \in classes[c].meta.assigned
                  => classes[c].status = "defined"
    /\ Constructing
           => /\ registerCalls[cur] = 1
              /\ [model |-> options.model, cls |-> cur] \in registries[options.registry]
              /\ options.fields = PreExisting(options)
    /\ (result.op = "define" /\ result.raised = "Exception")
           => LET c == result.cls
                  o == classes[c].meta
              IN /\ classes[c].created
                 /\ classes[c].status = "failed"
                 /\ registerCalls[c] = 1
                 /\ [model |-> o.model, cls |-> c] \in registries[o.registry]
                 /\ "sqlalchemy_fields" \notin o.assigned
                 /\ o.sqlalchemy_fields = EmptyDict
                 /\ o.fields = PreExisting(o)

\* C9's case: a converter raised for a relationship's class statement after a
\* column was converted, and the class is in the registry.
C9_Witness ==
    /\ result.op = "define"
    /\ result.raised = "Exception"
    /\ creation_counter > 0
    /\ \E r \in RegistryIds : \E e \in registries[r] : e.cls = result.cls

\* C10: is_type_of returns True for an instance of the type class itself;
\* else raises for a root whose class is no mapped model; else returns
\* whether the root is an instance of the bound model.  The call, like
\* get_query, get_node and resolve_id, changes nothing but its result.
C10_IsTypeOfOutcomes ==
    /\ [](result.op = "is_type_of"
              => LET root == result.input
                     c == result.cls
                 IN IF root.cls = c
                    THEN result.raised = "" /\ result.value = Bool(TRUE)
                    ELSE IF root.cls # 0 \/ ~is_mapped(root.class)
                         THEN result.raised = "Exception"
                         ELSE /\ result.raised = ""
                              /\ result.value = Bool(root.class = classes[c].meta.model))
    /\ [][(pc = "idle" /\ pc' = "idle" /\ cur' = cur)
              => UNCHANGED << classes, registries, registerCalls, args, todo, idx, fields,
                              calls, creation_counter >>]_vars

\* C10's case: is_type_of was asked about an instance of a mapped model
\* that is not the bound one, and returned False.
C10_Witness ==
    /\ result.op = "is_type_of"
    /\ result.raised = ""
    /\ result.value = Bool(FALSE)
    /\ is_mapped(result.input.class)

====
